---- MODULE Spec2Model ----
(***************************************************************************)
(* SmartScraper: the sandbox executor (src/sandbox/executor.py) and the    *)
(* execute / repair cycle driven through the /execute and /fix endpoints   *)
(* (src/main.py).                                                          *)
(*                                                                         *)
(* Text is modelled as a tuple of one-character strings, so that Python's  *)
(* `in`, `split` and f-string concatenation are computed, not assumed.     *)
(* The fixed Chinese fragments of the error messages are not ASCII; each   *)
(* is one opaque element carrying an English gloss in braces.              *)
(* The backquote character, which a TLA+ string cannot hold, is the        *)
(* element "{backquote}".                                                  *)
(***************************************************************************)
EXTENDS Integers, Sequences, FiniteSets, TLC

\* ------------------------------------------------------------------------
\* Bounds of the model
\* ------------------------------------------------------------------------
MaxCalls == 3
MaxAttemptsLimit == 3
\* calls of execute the two threads of the process make together
MaxThreadCalls == 2
\* requests POST /download serves
MaxDownloads == 2
\* calls of analyze_page on one PlaywrightClient, and the largest max_retries
MaxAnalyses == 2
MaxRetries == 2
\* requests the endpoints /analyze, /generate, /fix and /full serve
MaxRequests == 2

\* ------------------------------------------------------------------------
\* Text helpers (Python str operations)
\* ------------------------------------------------------------------------
\* `sub in text`
Contains(text, sub) ==
    \E i \in 1..(Len(text) - Len(sub) + 1) : SubSeq(text, i, i + Len(sub) - 1) = sub

\* text.find(ch) + 1, 0 when absent
FirstIndex(text, ch) ==
    IF \E i \in 1..Len(text) : text[i] = ch
    THEN CHOOSE i \in 1..Len(text) : text[i] = ch /\ \A j \in 1..(i - 1) : text[j] /= ch
    ELSE 0

\* name.split('.')[0]
BaseName(name) ==
    LET i == FirstIndex(name, ".")
    IN  IF i = 0 THEN name ELSE SubSeq(name, 1, i - 1)

\* text.split("'")[1], for a text that contains a quote
SplitQuoteSecond(text) ==
    LET i == FirstIndex(text, "'")
        rest == SubSeq(text, i + 1, Len(text))
        j == FirstIndex(rest, "'")
    IN  IF j = 0 THEN rest ELSE SubSeq(rest, 1, j - 1)

\* name.startswith("_")
StartsWithUnderscore(name) == Len(name) > 0 /\ name[1] = "_"

RECURSIVE Concat(_)
Concat(parts) == IF parts = <<>> THEN <<>> ELSE Head(parts) \o Concat(Tail(parts))

DigitValue(d) ==
    CASE d = "0" -> 0 [] d = "1" -> 1 [] d = "2" -> 2 [] d = "3" -> 3 [] d = "4" -> 4
      [] d = "5" -> 5 [] d = "6" -> 6 [] d = "7" -> 7 [] d = "8" -> 8 [] d = "9" -> 9

\* int(text) for a decimal literal
RECURSIVE ParseInt(_)
ParseInt(text) ==
    IF text = <<>> THEN 0
    ELSE 10 * ParseInt(SubSeq(text, 1, Len(text) - 1)) + DigitValue(text[Len(text)])

\* ------------------------------------------------------------------------
\* Execution policy
\* ------------------------------------------------------------------------
\* executor.py:135, in the order the pre-scan tries them
dangerous_keywords ==
    << <<"o", "s", ".">>, <<"s", "u", "b", "p", "r", "o", "c", "e", "s", "s">>, <<"s", "o", "c", "k", "e", "t">>, <<"e", "v", "a", "l", "(">>, <<"e", "x", "e", "c", "(">> >>

\* executor.py:50-65
ALLOWED_IMPORTS ==
    { <<"r", "e", "q", "u", "e", "s", "t", "s">>, <<"b", "s", "4">>, <<"j", "s", "o", "n">>, <<"r", "e">>, <<"d", "a", "t", "e", "t", "i", "m", "e">>, <<"t", "i", "m", "e">>, <<"t", "y", "p", "i", "n", "g">>,
      <<"c", "o", "l", "l", "e", "c", "t", "i", "o", "n", "s">>, <<"u", "r", "l", "l", "i", "b">>, <<"u", "r", "l", "l", "i", "b", ".", "p", "a", "r", "s", "e">>, <<"u", "r", "l", "l", "i", "b", ".", "r", "e", "q", "u", "e", "s", "t">>,
      <<"u", "r", "l", "l", "i", "b", ".", "e", "r", "r", "o", "r">>, <<"m", "a", "t", "h">>, <<"r", "a", "n", "d", "o", "m">> }

\* executor.py:33-40
BLOCKED_BUILTINS ==
    { <<"e", "x", "e", "c">>, <<"e", "v", "a", "l">>, <<"c", "o", "m", "p", "i", "l", "e">>, <<"o", "p", "e", "n">>, <<"i", "n", "p", "u", "t">>, <<"_", "_", "i", "m", "p", "o", "r", "t", "_", "_">>,
      <<"g", "l", "o", "b", "a", "l", "s">>, <<"l", "o", "c", "a", "l", "s">>, <<"g", "e", "t", "a", "t", "t", "r">>, <<"s", "e", "t", "a", "t", "t", "r">>, <<"d", "e", "l", "a", "t", "t", "r">>, <<"b", "r", "e", "a", "k", "p", "o", "i", "n", "t">> }

\* dir(builtins) of the host interpreter, a representative part of it
HostBuiltins ==
    BLOCKED_BUILTINS \cup
    { <<"p", "r", "i", "n", "t">>, <<"l", "e", "n">>, <<"e", "x", "i", "t">>, <<"_", "_", "d", "e", "b", "u", "g", "_", "_">>, <<"_", "_", "b", "u", "i", "l", "d", "_", "c", "l", "a", "s", "s", "_", "_">>,
      <<"E", "x", "c", "e", "p", "t", "i", "o", "n">>, <<"V", "a", "l", "u", "e", "E", "r", "r", "o", "r">>, <<"T", "y", "p", "e", "E", "r", "r", "o", "r">>, <<"N", "a", "m", "e", "E", "r", "r", "o", "r">>, <<"I", "m", "p", "o", "r", "t", "E", "r", "r", "o", "r">>,
      <<"M", "o", "d", "u", "l", "e", "N", "o", "t", "F", "o", "u", "n", "d", "E", "r", "r", "o", "r">>, <<"S", "y", "s", "t", "e", "m", "E", "x", "i", "t">>, <<"K", "e", "y", "b", "o", "a", "r", "d", "I", "n", "t", "e", "r", "r", "u", "p", "t">> }

\* Python's exception hierarchy: the classes `except Exception` does not catch
BaseExceptionOnly == { <<"S", "y", "s", "t", "e", "m", "E", "x", "i", "t">>, <<"K", "e", "y", "b", "o", "a", "r", "d", "I", "n", "t", "e", "r", "r", "u", "p", "t">> }

IsException(type) == type \notin BaseExceptionOnly

\* ModuleNotFoundError is the only subclass of itself that occurs here
IsModuleNotFoundError(type) == type = <<"M", "o", "d", "u", "l", "e", "N", "o", "t", "F", "o", "u", "n", "d", "E", "r", "r", "o", "r">>

\* executor.py:115
DefaultTimeout == 30

\* ------------------------------------------------------------------------
\* Candidate programs: a source text is the rendering of its statements
\* ------------------------------------------------------------------------
Stmt(op, arg, aux, body) == [op |-> op, arg |-> arg, aux |-> aux, body |-> body]

PrintStmt(text) == Stmt("print", text, <<>>, <<>>)
ImportStmt(module) == Stmt("import", module, <<>>, <<>>)
AssignStmt(name, literal) == Stmt("assign", name, literal, <<>>)
DefStmt(name, body) == Stmt("def", name, <<>>, body)
RaiseStmt(type, msg) == Stmt("raise", type, msg, <<>>)
CallStmt(name) == Stmt("call", name, <<>>, <<>>)
SleepStmt(secs) == Stmt("sleep", secs, <<>>, <<>>)
LoopStmt == Stmt("loop", <<>>, <<>>, <<>>)
ReturnStmt(expr) == Stmt("return", expr, <<>>, <<>>)

\* the source line of a statement that has no body
RenderSimple(s) ==
    CASE s.op = "print" -> <<"p", "r", "i", "n", "t", "(", "\"">> \o s.arg \o <<"\"", ")">>
      [] s.op = "import" -> <<"i", "m", "p", "o", "r", "t", " ">> \o s.arg
      [] s.op = "assign" -> s.arg \o <<" ", "=", " ">> \o s.aux
      [] s.op = "raise" -> <<"r", "a", "i", "s", "e", " ">> \o s.arg \o <<"(", "\"">> \o s.aux \o <<"\"", ")">>
      [] s.op = "call" -> s.arg \o <<"(", ")">>
      [] s.op = "sleep" -> <<"t", "i", "m", "e", ".", "s", "l", "e", "e", "p", "(">> \o s.arg \o <<")">>
      [] s.op = "loop" -> <<"w", "h", "i", "l", "e", " ", "T", "r", "u", "e", ":", " ", "p", "a", "s", "s">>
      [] s.op = "return" -> <<"r", "e", "t", "u", "r", "n", " ">> \o s.arg

RenderStmt(s) ==
    IF s.op = "def"
    THEN <<"d", "e", "f", " ">> \o s.arg \o <<"(", "u", "r", "l", ")", ":", "\n">>
         \o Concat([i \in 1..Len(s.body) |-> <<" ", " ", " ", " ">> \o RenderSimple(s.body[i]) \o <<"\n">>])
    ELSE RenderSimple(s) \o <<"\n">>

\* the source text of a program
Render(program) == Concat([i \in 1..Len(program) |-> RenderStmt(program[i])])

RecordsExpr == <<"[", "{", "\"", "o", "k", "\"", ":", " ", "T", "r", "u", "e", "}", "]">>
DictExpr == <<"{", "\"", "o", "k", "\"", ":", " ", "T", "r", "u", "e", "}">>
NoneExpr == <<"N", "o", "n", "e">>

P_ok == << DefStmt(<<"s", "c", "r", "a", "p", "e">>, << ReturnStmt(RecordsExpr) >>) >>

P_print_ok ==
    << PrintStmt(<<"a">>),
       DefStmt(<<"s", "c", "r", "a", "p", "e">>, << PrintStmt(<<"b">>), ReturnStmt(RecordsExpr) >>) >>

P_upper ==
    << DefStmt(<<"s", "c", "r", "a", "p", "e">>, << PrintStmt(<<"O", "S", ".">>), ReturnStmt(DictExpr) >>) >>

P_none == << DefStmt(<<"s", "c", "r", "a", "p", "e">>, << ReturnStmt(NoneExpr) >>) >>

P_noscrape == << PrintStmt(<<"a">>), AssignStmt(<<"x">>, <<"5">>) >>

P_noncallable == << PrintStmt(<<"a">>), AssignStmt(<<"s", "c", "r", "a", "p", "e">>, <<"5">>) >>

P_import_os ==
    << PrintStmt(<<"a">>), ImportStmt(<<"o", "s">>),
       DefStmt(<<"s", "c", "r", "a", "p", "e">>, << ReturnStmt(RecordsExpr) >>) >>

P_import_scraper ==
    << DefStmt(<<"s", "c", "r", "a", "p", "e">>,
         << PrintStmt(<<"b">>), ImportStmt(<<"s", "c", "r", "a", "p", "e", "r">>), ReturnStmt(RecordsExpr) >>) >>

P_import_plugin ==
    << PrintStmt(<<"a">>), ImportStmt(<<"j", "s", "o", "n", ".", "p", "l", "u", "g", "i", "n">>),
       DefStmt(<<"s", "c", "r", "a", "p", "e">>, << ReturnStmt(RecordsExpr) >>) >>

P_keyword ==
    << PrintStmt(<<"a">>), RaiseStmt(<<"V", "a", "l", "u", "e", "E", "r", "r", "o", "r">>, <<"b", "a", "d">>), CallStmt(<<"o", "s", ".", "g", "e", "t", "c", "w", "d">>) >>

P_substring ==
    << PrintStmt(<<"a">>),
       DefStmt(<<"s", "c", "r", "a", "p", "e">>, << PrintStmt(<<"c", "o", "s", ".">>), ReturnStmt(RecordsExpr) >>) >>

P_raise ==
    << DefStmt(<<"s", "c", "r", "a", "p", "e">>, << PrintStmt(<<"b">>), RaiseStmt(<<"V", "a", "l", "u", "e", "E", "r", "r", "o", "r">>, <<"b", "a", "d">>) >>) >>

\* raises with a message that happens to hold the word scrape
P_raise_scrape ==
    << DefStmt(<<"s", "c", "r", "a", "p", "e">>, << RaiseStmt(<<"V", "a", "l", "u", "e", "E", "r", "r", "o", "r">>, <<"c", "a", "n", "n", "o", "t", " ", "s", "c", "r", "a", "p", "e", " ", "p", "a", "g", "e">>) >>) >>

P_exit ==
    << PrintStmt(<<"a">>),
       DefStmt(<<"s", "c", "r", "a", "p", "e">>, << PrintStmt(<<"b">>), RaiseStmt(<<"S", "y", "s", "t", "e", "m", "E", "x", "i", "t">>, <<"b", "y", "e">>) >>) >>

P_sleep ==
    << ImportStmt(<<"t", "i", "m", "e">>),
       DefStmt(<<"s", "c", "r", "a", "p", "e">>,
         << PrintStmt(<<"b">>), SleepStmt(<<"3", "1">>), ReturnStmt(RecordsExpr) >>) >>

P_hang == << DefStmt(<<"s", "c", "r", "a", "p", "e">>, << PrintStmt(<<"b">>), LoopStmt >>) >>

\* rebinds an attribute of the pre-populated module re
P_patch ==
    << AssignStmt(<<"r", "e", ".", "p", "u", "r", "g", "e">>, <<"5">>),
       DefStmt(<<"s", "c", "r", "a", "p", "e">>, << ReturnStmt(RecordsExpr) >>) >>

\* calls that attribute
P_purge ==
    << DefStmt(<<"s", "c", "r", "a", "p", "e">>, << CallStmt(<<"r", "e", ".", "p", "u", "r", "g", "e">>), ReturnStmt(RecordsExpr) >>) >>

Programs ==
    { P_ok, P_print_ok, P_upper, P_none, P_noscrape, P_noncallable, P_import_os,
      P_import_scraper, P_import_plugin, P_keyword, P_substring, P_raise, P_exit,
      P_sleep, P_hang, P_patch, P_purge, P_raise_scrape }

Urls == { <<"h", "t", "t", "p", "s", ":", "/", "/", "a", ".", "e", "x", "a", "m", "p", "l", "e", "/">>, <<"h", "t", "t", "p", "s", ":", "/", "/", "b", ".", "e", "x", "a", "m", "p", "l", "e", "/", "l", "i", "s", "t">> }

\* the modules the host interpreter can load; bs4 is a third-party package
StdModules ==
    { <<"r", "e", "q", "u", "e", "s", "t", "s">>, <<"j", "s", "o", "n">>, <<"r", "e">>, <<"d", "a", "t", "e", "t", "i", "m", "e">>, <<"t", "i", "m", "e">>, <<"o", "s">> }

Environments == { StdModules \cup { <<"b", "s", "4">> }, StdModules }

\* ------------------------------------------------------------------------
\* Values, results, exceptions
\* ------------------------------------------------------------------------
Value(kind, repr) == [kind |-> kind, repr |-> repr]

NoneValue == Value("NoneType", NoneExpr)

\* the value of a literal expression of a candidate program
EvalExpr(expr) ==
    CASE expr = NoneExpr -> NoneValue
      [] expr = RecordsExpr -> Value("list", expr)
      [] expr = DictExpr -> Value("dict", expr)
      [] OTHER -> Value("int", expr)

\* an Optional[str] is <<>> (None) or <<text>>
NoError == <<>>

ExecutionResult(success, data, error, stdout) ==
    [success |-> success, data |-> data, error |-> error, stdout |-> stdout]

Exc(type, msg) == [type |-> type, msg |-> msg]

NameErrorOf(name) == Exc(<<"N", "a", "m", "e", "E", "r", "r", "o", "r">>, <<"n", "a", "m", "e", " ", "'">> \o name \o <<"'", " ", "i", "s", " ", "n", "o", "t", " ", "d", "e", "f", "i", "n", "e", "d">>)

\* the fixed fragments of the messages
MsgDangerousKeyword == << "{forbidden dangerous keyword: }" >>
MsgMustDefineScrape == << "{the code must define the }" >> \o <<"s", "c", "r", "a", "p", "e", "(", "u", "r", "l", ")">> \o << "{ function}" >>
MsgMissingModule == << "{missing module: }" >>
MsgPleaseInstall == <<"\n", "\n">> \o << "{please run the install command:}" >> \o <<"\n">>
MsgCheckScrape == << "{code execution error, please check }" >> \o <<"s", "c", "r", "a", "p", "e", "(", ")">> \o << "{ function}" >>

\* the install command without the lookup in install_hints
InstallCommandDefaultOnly(module_name) == <<"u", "v", " ", "a", "d", "d", " ">> \o module_name

\* install_hints.get(module_name, f"uv add {module_name}")
InstallCommand(module_name) ==
    CASE module_name = <<"b", "s", "4">> -> <<"u", "v", " ", "a", "d", "d", " ", "b", "e", "a", "u", "t", "i", "f", "u", "l", "s", "o", "u", "p", "4">>
      [] module_name = <<"b", "e", "a", "u", "t", "i", "f", "u", "l", "s", "o", "u", "p", "4">> -> <<"u", "v", " ", "a", "d", "d", " ", "b", "e", "a", "u", "t", "i", "f", "u", "l", "s", "o", "u", "p", "4">>
      [] module_name = <<"r", "e", "q", "u", "e", "s", "t", "s">> -> <<"u", "v", " ", "a", "d", "d", " ", "r", "e", "q", "u", "e", "s", "t", "s">>
      [] OTHER -> <<"u", "v", " ", "a", "d", "d", " ">> \o module_name

\* `text.startswith(prefix)`
StartsWith(text, prefix) ==
    Len(text) >= Len(prefix) /\ SubSeq(text, 1, Len(prefix)) = prefix

\* The outcome tag of a result. ExecutionResult has no tag field: a caller
\* tells the outcomes apart by `success` and by the text of `error`.
Outcome(res) ==
    IF res.success THEN "Success"
    ELSE IF StartsWith(res.error[1], MsgDangerousKeyword) THEN "PolicyViolation"
    ELSE IF res.error[1] = MsgMustDefineScrape THEN "MissingEntryPoint"
    ELSE IF StartsWith(res.error[1], <<"I", "m", "p", "o", "r", "t", "E", "r", "r", "o", "r", ":", " ", "S", "a", "n", "d", "b", "o", "x", " ", "R", "e", "s", "t", "r", "i", "c", "t", "i", "o", "n", ":", " ", "M", "o", "d", "u", "l", "e", " ", "'">>)
    THEN "ModuleDenied"
    ELSE "RuntimeFailure"

\* ------------------------------------------------------------------------
\* create_safe_globals
\* ------------------------------------------------------------------------
\* the builtins copied without the test against BLOCKED_BUILTINS
safe_builtinsUnfiltered ==
    { name \in HostBuiltins : ~StartsWithUnderscore(name) } \cup { <<"_", "_", "i", "m", "p", "o", "r", "t", "_", "_">> }

safe_builtins ==
    { name \in HostBuiltins : name \notin BLOCKED_BUILTINS /\ ~StartsWithUnderscore(name) }
    \cup { <<"_", "_", "i", "m", "p", "o", "r", "t", "_", "_">> }

\* the modules create_safe_globals imports itself, in order
PreImports == << <<"r", "e", "q", "u", "e", "s", "t", "s">>, <<"b", "s", "4">>, <<"j", "s", "o", "n">>, <<"r", "e">>, <<"d", "a", "t", "e", "t", "i", "m", "e">> >>

PreBoundNames ==
    { <<"_", "_", "b", "u", "i", "l", "t", "i", "n", "s", "_", "_">>, <<"_", "_", "n", "a", "m", "e", "_", "_">>, <<"r", "e", "q", "u", "e", "s", "t", "s">>, <<"B", "e", "a", "u", "t", "i", "f", "u", "l", "S", "o", "u", "p">>, <<"j", "s", "o", "n">>,
      <<"r", "e">>, <<"d", "a", "t", "e", "t", "i", "m", "e">>, <<"p", "r", "i", "n", "t">> }

NoNamespace == [builtins |-> {}, names |-> [n \in {} |-> Value("", <<>>)]]

create_safe_globals ==
    [builtins |-> safe_builtins,
     names |-> [n \in PreBoundNames |->
                  IF n = <<"p", "r", "i", "n", "t">> THEN Value("builtin", n)
                  ELSE IF n = <<"_", "_", "n", "a", "m", "e", "_", "_">> THEN Value("str", <<"_", "_", "m", "a", "i", "n", "_", "_">>)
                  ELSE IF n = <<"_", "_", "b", "u", "i", "l", "t", "i", "n", "s", "_", "_">> THEN Value("dict", n)
                  ELSE Value("module", n)]]

\* the first pre-import the host cannot satisfy, 0 when there is none
FirstMissingPreImport(env) ==
    IF \E i \in 1..Len(PreImports) : PreImports[i] \notin env
    THEN CHOOSE i \in 1..Len(PreImports) :
            PreImports[i] \notin env /\ \A j \in 1..(i - 1) : PreImports[j] \in env
    ELSE 0

\* safe_import: "allowed" when the name or its first component is allowlisted
ImportAllowed(name) == name \in ALLOWED_IMPORTS \/ BaseName(name) \in ALLOWED_IMPORTS

ImportDenied(name) ==
    Exc(<<"I", "m", "p", "o", "r", "t", "E", "r", "r", "o", "r">>,
        <<"S", "a", "n", "d", "b", "o", "x", " ", "R", "e", "s", "t", "r", "i", "c", "t", "i", "o", "n", ":", " ", "M", "o", "d", "u", "l", "e", " ", "'">> \o name \o <<"'", " ", "i", "s", " ", "n", "o", "t", " ", "a", "l", "l", "o", "w", "e", "d", ".">>)

ModuleNotFound(name) ==
    Exc(<<"M", "o", "d", "u", "l", "e", "N", "o", "t", "F", "o", "u", "n", "d", "E", "r", "r", "o", "r">>, <<"N", "o", " ", "m", "o", "d", "u", "l", "e", " ", "n", "a", "m", "e", "d", " ", "'">> \o name \o <<"'">>)

Bind(ns, name, value) ==
    [ns EXCEPT !.names = [n \in (DOMAIN ns.names) \cup {name} |->
                             IF n = name THEN value ELSE ns.names[n]]]

\* a name is found in the globals or in the namespace's builtins
Resolves(ns, name) == name \in DOMAIN ns.names \/ name \in ns.builtins

\* ------------------------------------------------------------------------
\* State
\* ------------------------------------------------------------------------
VARIABLES
    frame,       \* the activation of SandboxExecutor.execute
    sys_stdout,  \* sys.stdout: the id of the stream print writes to
    streams,     \* the text written to each stream; stream 0 is the host's
    loaded,      \* the modules loaded on behalf of candidate programs
    patched,     \* the attributes of the host's module objects that programs rebound
    result,      \* <<>> or the ExecutionResult the last call returned
    escaped,     \* <<>> or the exception the last call let through
    installed,   \* the modules the host environment can load
    session,     \* the attempt session that drives the calls
    fix,         \* the activation of POST /fix
    other,       \* the activation of execute on the host's second thread
    download,    \* the last request of POST /download and its response
    client,      \* the PlaywrightClient and its call of analyze_page
    endpoint     \* the activation of /analyze, /generate, /fix or /full

engineVars == <<frame, sys_stdout, streams, loaded, patched, result, escaped, installed>>
otherVars == <<fix, other, download, client, endpoint>>
vars ==
    <<frame, sys_stdout, streams, loaded, patched, result, escaped, installed, session, fix,
      other, download, client, endpoint>>

HostStream == 0

\* one stream per call of execute, whoever makes the calls
StreamIds == 0..(MaxCalls + MaxAttemptsLimit)

IdleFrame ==
    [pc |-> "idle", ip |-> 0, code |-> <<>>, url |-> <<>>, timeout |-> DefaultTimeout,
     old_stdout |-> HostStream, captured_output |-> HostStream,
     exec_globals |-> NoNamespace, elapsed |-> 0, callNo |-> 0,
     built |-> FALSE, ran |-> FALSE, invoked |-> FALSE, written |-> <<>>,
     denied |-> <<>>, entry |-> "unchecked", caught |-> <<>>]

\* the part of the state execute works on
Machine ==
    [frame |-> frame, sys_stdout |-> sys_stdout, streams |-> streams,
     loaded |-> loaded, patched |-> patched, result |-> result, escaped |-> escaped]

\* captured_output.getvalue()
GetValue(M) == M.streams[M.frame.captured_output]

\* execute without the finally clause: sys.stdout stays redirected
FinallyWithoutRestore(M, pc) ==
    [M EXCEPT !.frame = [@ EXCEPT !.pc = pc, !.ip = 0, !.exec_globals = NoNamespace]]

\* `finally: sys.stdout = old_stdout`, after which the activation is gone and
\* the StringIO is freed unless sys.stdout still refers to it
Finally(M, pc) ==
    LET buf == M.frame.captured_output
        out == M.frame.old_stdout
    IN  [M EXCEPT !.sys_stdout = out,
                  !.streams = [@ EXCEPT ![buf] = IF buf = out \/ buf = HostStream
                                                  THEN @ ELSE <<>>],
                  !.frame = [@ EXCEPT !.pc = pc, !.ip = 0,
                                      !.exec_globals = NoNamespace]]

ReturnResult(M, res) ==
    Finally([M EXCEPT !.result = << res >>], "returned")

\* the except clauses of execute
Handle(M0, e) ==
    LET M == [M0 EXCEPT !.frame.caught = << e >>]
    IN
    IF IsModuleNotFoundError(e.type)
    THEN LET module_name == IF Contains(e.msg, <<"'">>) THEN SplitQuoteSecond(e.msg)
                            ELSE e.msg
         IN  ReturnResult(M, ExecutionResult(FALSE, NoneValue,
                 << MsgMissingModule \o module_name \o MsgPleaseInstall
                    \o InstallCommand(module_name) >>,
                 GetValue(M)))
    ELSE IF IsException(e.type)
    THEN LET error_msg == IF Contains(e.msg, <<"s", "c", "r", "a", "p", "e">>) THEN MsgCheckScrape
                          ELSE e.type \o <<":", " ">> \o e.msg
         IN  ReturnResult(M, ExecutionResult(FALSE, NoneValue, << error_msg >>,
                                             GetValue(M)))
    ELSE Finally([M EXCEPT !.escaped = << e >>], "raised")

\* print(text): writes to whatever sys.stdout is at the time of the call
Write(M, text) ==
    LET item == [by |-> M.frame.callNo, text |-> text \o <<"\n">>]
    IN  [M EXCEPT !.streams[M.sys_stdout] = Append(@, item),
                  !.frame.written = Append(@, item)]

NextStmt(M) == [M EXCEPT !.frame.ip = @ + 1]

\* the block the activation is in: the source or the body of scrape
Block(M) ==
    IF M.frame.pc = "top" THEN M.frame.code
    ELSE M.frame.exec_globals.names[<<"s", "c", "r", "a", "p", "e">>].repr

\* one statement of the candidate program
ExecStmt(M0, s) ==
    LET M == [M0 EXCEPT !.frame.ran = TRUE]
        ns == M.frame.exec_globals
    IN  CASE s.op = "print" ->
                IF Resolves(ns, <<"p", "r", "i", "n", "t">>) THEN NextStmt(Write(M, s.arg))
                ELSE Handle(M, NameErrorOf(<<"p", "r", "i", "n", "t">>))
          [] s.op = "import" ->
                IF ~ImportAllowed(s.arg)
                THEN Handle([M EXCEPT !.frame.denied = << s.arg >>], ImportDenied(s.arg))
                ELSE IF s.arg \notin installed THEN Handle(M, ModuleNotFound(s.arg))
                ELSE NextStmt([M EXCEPT
                        !.loaded = @ \cup {s.arg},
                        !.frame.exec_globals =
                            Bind(ns, BaseName(s.arg), Value("module", BaseName(s.arg)))])
          [] s.op = "assign" ->
                IF ~Contains(s.arg, <<".">>)
                THEN NextStmt([M EXCEPT !.frame.exec_globals =
                                           Bind(ns, s.arg, EvalExpr(s.aux))])
                \* module.attr = value: the module object is the host's own
                ELSE IF ~Resolves(ns, BaseName(s.arg))
                THEN Handle(M, NameErrorOf(BaseName(s.arg)))
                ELSE NextStmt([M EXCEPT !.patched = @ \cup {s.arg}])
          [] s.op = "def" ->
                NextStmt([M EXCEPT !.frame.exec_globals =
                                      Bind(ns, s.arg, Value("function", s.body))])
          [] s.op = "raise" ->
                IF Resolves(ns, s.arg) THEN Handle(M, Exc(s.arg, s.aux))
                ELSE Handle(M, NameErrorOf(s.arg))
          [] s.op = "call" ->
                IF ~Resolves(ns, BaseName(s.arg)) THEN Handle(M, NameErrorOf(BaseName(s.arg)))
                ELSE IF s.arg = <<"e", "x", "i", "t">> THEN Handle(M, Exc(<<"S", "y", "s", "t", "e", "m", "E", "x", "i", "t">>, NoneExpr))
                ELSE IF s.arg \in M.patched
                THEN Handle(M, Exc(<<"T", "y", "p", "e", "E", "r", "r", "o", "r">>, <<"'", "i", "n", "t", "'", " ", "o", "b", "j", "e", "c", "t", " ", "i", "s", " ", "n", "o", "t", " ", "c", "a", "l", "l", "a", "b", "l", "e">>))
                ELSE NextStmt(M)
          [] s.op = "sleep" ->
                IF Resolves(ns, <<"t", "i", "m", "e">>)
                THEN NextStmt([M EXCEPT !.frame.elapsed = @ + ParseInt(s.arg)])
                ELSE Handle(M, NameErrorOf(<<"t", "i", "m", "e">>))
          [] s.op = "loop" ->
                [M EXCEPT !.frame.elapsed =
                              IF @ <= M.frame.timeout THEN @ + 1 ELSE @]
          [] s.op = "return" ->
                ReturnResult(M, ExecutionResult(TRUE, EvalExpr(s.arg), NoError, GetValue(M)))

\* what execute itself does once the candidate program reaches the end of a block
Advance(M) ==
    IF M.frame.pc = "top" /\ M.frame.ip > Len(M.frame.code)
    THEN IF <<"s", "c", "r", "a", "p", "e">> \notin DOMAIN M.frame.exec_globals.names
         THEN ReturnResult([M EXCEPT !.frame.entry = "absent"],
                           ExecutionResult(FALSE, NoneValue, << MsgMustDefineScrape >>, <<>>))
         ELSE IF M.frame.exec_globals.names[<<"s", "c", "r", "a", "p", "e">>].kind = "function"
         THEN [M EXCEPT !.frame.pc = "scrape", !.frame.ip = 1, !.frame.invoked = TRUE,
                        !.frame.entry = "callable"]
         ELSE Handle([M EXCEPT !.frame.entry = "not callable"],
                     Exc(<<"T", "y", "p", "e", "E", "r", "r", "o", "r">>, <<"'", "i", "n", "t", "'", " ", "o", "b", "j", "e", "c", "t", " ", "i", "s", " ", "n", "o", "t", " ", "c", "a", "l", "l", "a", "b", "l", "e">>))
    ELSE IF M.frame.pc = "scrape" /\ M.frame.ip > Len(Block(M))
    THEN ReturnResult(M, ExecutionResult(TRUE, NoneValue, NoError, GetValue(M)))
    ELSE M

\* the pre-scan with a loop that starts one keyword too late
FirstKeywordSkippingOne(code_text) ==
    IF \E i \in 2..Len(dangerous_keywords) : Contains(code_text, dangerous_keywords[i])
    THEN CHOOSE i \in 2..Len(dangerous_keywords) :
            /\ Contains(code_text, dangerous_keywords[i])
            /\ \A j \in 2..(i - 1) : ~Contains(code_text, dangerous_keywords[j])
    ELSE 0

\* the state of execute and of the interpreter before any call
FreshMachine ==
    [frame |-> IdleFrame, sys_stdout |-> HostStream,
     streams |-> [i \in StreamIds |-> <<>>], loaded |-> {}, patched |-> {},
     result |-> <<>>, escaped |-> <<>>]

\* the first dangerous keyword the source contains, 0 when there is none
FirstKeyword(code_text) ==
    IF \E i \in 1..Len(dangerous_keywords) : Contains(code_text, dangerous_keywords[i])
    THEN CHOOSE i \in 1..Len(dangerous_keywords) :
            /\ Contains(code_text, dangerous_keywords[i])
            /\ \A j \in 1..(i - 1) : ~Contains(code_text, dangerous_keywords[j])
    ELSE 0

\* SandboxExecutor.execute up to the point where the candidate program runs
Enter(M0, code, url, callNo) ==
    LET M == [M0 EXCEPT
                !.frame = [IdleFrame EXCEPT !.pc = "top", !.ip = 1, !.code = code,
                                            !.url = url, !.callNo = callNo,
                                            !.old_stdout = M0.sys_stdout,
                                            !.captured_output = callNo],
                !.sys_stdout = callNo,
                !.streams[callNo] = <<>>,
                !.result = <<>>,
                !.escaped = <<>>]
        k == FirstKeyword(Render(code))
        missing == FirstMissingPreImport(installed)
    IN  IF k /= 0
        THEN ReturnResult(M, ExecutionResult(FALSE, NoneValue,
                               << MsgDangerousKeyword \o dangerous_keywords[k] >>, <<>>))
        ELSE IF missing /= 0
        THEN Handle(M, ModuleNotFound(PreImports[missing]))
        ELSE Advance([M EXCEPT !.frame.exec_globals = create_safe_globals,
                               !.frame.built = TRUE,
                               !.loaded = @ \cup { PreImports[i] : i \in 1..Len(PreImports) }])

Install(M) ==
    /\ frame' = M.frame
    /\ sys_stdout' = M.sys_stdout
    /\ streams' = M.streams
    /\ loaded' = M.loaded
    /\ patched' = M.patched
    /\ result' = M.result
    /\ escaped' = M.escaped

Active == frame.pc \in {"top", "scrape"}

\* a call run until it returns, lets an exception through or spins
RECURSIVE RunToEnd(_)
RunToEnd(M) ==
    IF M.frame.pc \notin {"top", "scrape"} THEN M
    ELSE IF Block(M)[M.frame.ip].op = "loop" THEN M
    ELSE RunToEnd(Advance(ExecStmt(M, Block(M)[M.frame.ip])))

\* how a call ended: the outcome of its result, or that it raised or spins
Ending(M) ==
    IF M.frame.pc = "returned" THEN Outcome(M.result[1])
    ELSE IF M.frame.pc = "raised" THEN "Raised"
    ELSE "Running"

\* ------------------------------------------------------------------------
\* The engine on its own: a caller submits programs one after the other
\* (POST /execute)
\* ------------------------------------------------------------------------
\* the endpoints that take no part in a specification stay as they start
IdleFix == [pc |-> "idle", request |-> <<>>, prompt |-> <<>>, reply |-> <<>>,
            fixed_code |-> <<>>]

\* the second thread while it has made no call of execute
IdleActivation == [frame |-> IdleFrame, result |-> <<>>, escaped |-> <<>>]

\* POST /download before its first request
NoDownload == [served |-> 0, request |-> <<>>, response |-> <<>>]

\* PlaywrightClient.__init__, and no call of analyze_page yet
NewClient ==
    [pc |-> "idle", browser |-> FALSE, url |-> <<>>, max_retries |-> 0, attempt |-> 0,
     pages |-> <<>>, last_error |-> <<>>, pending |-> <<>>, outcome |-> <<>>,
     calls |-> 0]

\* no request of /analyze, /generate, /fix or /full yet
IdleEndpoint ==
    [pc |-> "idle", path |-> "", url |-> <<>>, auto_execute |-> FALSE, stage |-> "", agents |-> <<>>,
     pending |-> "", analysis |-> FALSE, generation |-> <<>>, executions |-> <<>>,
     response |-> "", served |-> 0]

OthersIdle ==
    /\ fix = IdleFix
    /\ other = IdleActivation
    /\ download = NoDownload
    /\ client = NewClient
    /\ endpoint = IdleEndpoint

NoSession ==
    [state |-> "none", attempt |-> 0, maxAttempts |-> 0, source |-> <<>>,
     origin |-> "generated", target |-> <<>>, history |-> <<>>, request |-> <<>>,
     engineCalls |-> 0, oracleCalls |-> 0]

Init ==
    /\ frame = IdleFrame
    /\ sys_stdout = HostStream
    /\ streams = [i \in StreamIds |-> <<>>]
    /\ loaded = {}
    /\ patched = {}
    /\ result = <<>>
    /\ escaped = <<>>
    /\ installed \in Environments
    /\ session = NoSession
    /\ OthersIdle

\* execute_code: a call of execute begins
Execute(code, url) ==
    /\ ~Active
    /\ frame.callNo < MaxCalls
    /\ Install(Enter(Machine, code, url, frame.callNo + 1))
    /\ UNCHANGED <<installed, session>>
    /\ UNCHANGED otherVars

\* the candidate program runs its next statement
RunStatement ==
    /\ Active
    /\ Install(Advance(ExecStmt(Machine, Block(Machine)[frame.ip])))
    /\ UNCHANGED <<installed, session>>
    /\ UNCHANGED otherVars

Next ==
    \/ \E code \in Programs, url \in Urls : Execute(code, url)
    \/ RunStatement

Spec == Init /\ [][Next]_vars

\* ------------------------------------------------------------------------
\* The attempt session: the execute / repair cycle of spec section 4.4,
\* driving execute (POST /execute) and the repair oracle (POST /fix)
\* ------------------------------------------------------------------------
\* the programs the code-generation oracle answers with, one per kind of outcome
OraclePrograms ==
    { P_ok, P_print_ok, P_raise, P_noscrape, P_keyword, P_import_os, P_exit }

SessionInit ==
    /\ frame = IdleFrame
    /\ sys_stdout = HostStream
    /\ streams = [i \in StreamIds |-> <<>>]
    /\ loaded = {}
    /\ patched = {}
    /\ result = <<>>
    /\ escaped = <<>>
    /\ installed \in Environments
    /\ \E source \in OraclePrograms, url \in Urls, n \in 1..MaxAttemptsLimit :
          session = [NoSession EXCEPT !.state = "Drafted", !.attempt = 1,
                                      !.maxAttempts = n, !.source = source,
                                      !.target = url]
    /\ OthersIdle

\* Drafted -> Executing: the candidate program is submitted to the engine
Submit ==
    /\ session.state = "Drafted"
    /\ ~Active
    /\ Install(Enter(Machine, session.source, session.target, frame.callNo + 1))
    /\ session' = [session EXCEPT !.state = "Executing", !.engineCalls = @ + 1]
    /\ UNCHANGED installed
    /\ UNCHANGED otherVars

\* the classification with the attempt bound off by one
ClassifyOneAttemptMore ==
    /\ session.state = "Executing"
    /\ frame.pc = "returned"
    /\ LET entry == [source |-> session.source, attempt |-> session.attempt,
                     origin |-> session.origin, result |-> result[1]]
       IN  session' = [session EXCEPT
               !.history = Append(@, entry),
               !.state = IF Outcome(result[1]) = "Success" THEN "Succeeded"
                         ELSE IF session.attempt <= session.maxAttempts THEN "NeedsRepair"
                         ELSE "GaveUp"]
    /\ UNCHANGED engineVars
    /\ UNCHANGED otherVars

\* the classification that asks for a repair while attempts remain, whatever
\* the outcome
ClassifyIgnoringSuccess ==
    /\ session.state = "Executing"
    /\ frame.pc = "returned"
    /\ LET entry == [source |-> session.source, attempt |-> session.attempt,
                     origin |-> session.origin, result |-> result[1]]
       IN  session' = [session EXCEPT
               !.history = Append(@, entry),
               !.state = IF session.attempt < session.maxAttempts THEN "NeedsRepair"
                         ELSE IF Outcome(result[1]) = "Success" THEN "Succeeded"
                         ELSE "GaveUp"]
    /\ UNCHANGED engineVars
    /\ UNCHANGED otherVars

\* the classification that gives up at once on a policy violation
ClassifySpecialCasingPolicy ==
    /\ session.state = "Executing"
    /\ frame.pc = "returned"
    /\ LET entry == [source |-> session.source, attempt |-> session.attempt,
                     origin |-> session.origin, result |-> result[1]]
       IN  session' = [session EXCEPT
               !.history = Append(@, entry),
               !.state = IF Outcome(result[1]) = "Success" THEN "Succeeded"
                         ELSE IF Outcome(result[1]) = "PolicyViolation" THEN "GaveUp"
                         ELSE IF session.attempt < session.maxAttempts THEN "NeedsRepair"
                         ELSE "GaveUp"]
    /\ UNCHANGED engineVars
    /\ UNCHANGED otherVars

\* Executing -> Succeeded | NeedsRepair | GaveUp, on the result of the call
Classify ==
    /\ session.state = "Executing"
    /\ frame.pc = "returned"
    /\ LET entry == [source |-> session.source, attempt |-> session.attempt,
                     origin |-> session.origin, result |-> result[1]]
       IN  session' = [session EXCEPT
               !.history = Append(@, entry),
               !.state = IF Outcome(result[1]) = "Success" THEN "Succeeded"
                         ELSE IF session.attempt < session.maxAttempts THEN "NeedsRepair"
                         ELSE "GaveUp"]
    /\ UNCHANGED engineVars
    /\ UNCHANGED otherVars

\* NeedsRepair -> Repairing: the repair request (FixRequest) goes to the oracle
RequestRepair ==
    /\ session.state = "NeedsRepair"
    /\ LET last == session.history[Len(session.history)]
       IN  session' = [session EXCEPT
               !.state = "Repairing",
               !.oracleCalls = @ + 1,
               !.request = << [original_code |-> Render(last.source),
                               url |-> session.target,
                               execution_result |-> last.result.error] >>]
    /\ UNCHANGED engineVars
    /\ UNCHANGED otherVars

\* Repairing -> Drafted: the oracle's reply becomes the next candidate program
OracleReply(fixed_code) ==
    /\ session.state = "Repairing"
    /\ session' = [session EXCEPT !.state = "Drafted", !.attempt = @ + 1,
                                  !.origin = "repaired", !.source = fixed_code,
                                  !.request = <<>>]
    /\ UNCHANGED engineVars
    /\ UNCHANGED otherVars

SessionNext ==
    \/ Submit
    \/ RunStatement
    \/ Classify
    \/ RequestRepair
    \/ \E fixed_code \in OraclePrograms : OracleReply(fixed_code)

SessionSpec == SessionInit /\ [][SessionNext]_vars

\* ------------------------------------------------------------------------
\* POST /fix: fix_code (main.py) and ScraperGenerator.fix_code (generator.py)
\* ------------------------------------------------------------------------
\* the characters Python's str.strip() and the regex class \s remove
IsSpace(ch) == ch \in {" ", "\n", "\t", "\r"}

\* text.strip()
Strip(text) ==
    IF \A i \in 1..Len(text) : IsSpace(text[i]) THEN <<>>
    ELSE LET first == CHOOSE i \in 1..Len(text) :
                          ~IsSpace(text[i]) /\ \A j \in 1..(i - 1) : IsSpace(text[j])
             last == CHOOSE i \in 1..Len(text) :
                          ~IsSpace(text[i]) /\ \A j \in (i + 1)..Len(text) : IsSpace(text[j])
         IN  SubSeq(text, first, last)

\* text.find(sub, from - 1) + 1: the first occurrence at or after `from`, else 0
FindFrom(text, sub, from) ==
    LET hits == { i \in from..(Len(text) - Len(sub) + 1) :
                    SubSeq(text, i, i + Len(sub) - 1) = sub }
    IN  IF hits = {} THEN 0 ELSE CHOOSE i \in hits : \A j \in hits : i <= j

PythonFence == <<"{backquote}", "{backquote}", "{backquote}", "p", "y", "t", "h", "o", "n">>
Fence == <<"{backquote}", "{backquote}", "{backquote}">>

\* the reply handling without the search for a fenced block
ExtractCodeWholeReply(response_content) == Strip(response_content)

\* generator.py:161-164: content.strip(), then group 1 of the first match of
\* ```python\s*(.*?)\s*``` (DOTALL), else the stripped content
ExtractCode(response_content) ==
    LET content == Strip(response_content)
        open == FindFrom(content, PythonFence, 1)
        after == open + Len(PythonFence)
        \* the greedy \s* after the tag
        start == IF \E i \in after..Len(content) : ~IsSpace(content[i])
                 THEN CHOOSE i \in after..Len(content) :
                         ~IsSpace(content[i]) /\ \A j \in after..(i - 1) : IsSpace(content[j])
                 ELSE Len(content) + 1
        close == FindFrom(content, Fence, start)
        \* the lazy group stops where only whitespace is left before the fence
        stop == CHOOSE i \in start..close :
                    /\ \A j \in i..(close - 1) : IsSpace(content[j])
                    /\ \A k \in start..(i - 1) : \E j \in k..(close - 1) : ~IsSpace(content[j])
    IN  IF open = 0 \/ close = 0 THEN content
        ELSE SubSeq(content, start, stop - 1)

\* main.py:88-93
FixRequest(original_code, url, goal, execution_result, user_feedback) ==
    [original_code |-> original_code, url |-> url, goal |-> goal,
     execution_result |-> execution_result, user_feedback |-> user_feedback]

\* generator.py:132-150, the user prompt of the repair request
UserPrompt(original_code, url, goal, error, user_feedback) ==
    << "{target url: }" >> \o url \o <<"\n">>
    \o << "{user goal: }" >> \o goal \o <<"\n", "\n">>
    \o << "{original code:}" >> \o <<"\n", "{backquote}", "{backquote}", "{backquote}", "p", "y", "t", "h", "o", "n", "\n">> \o original_code \o <<"\n", "{backquote}", "{backquote}", "{backquote}", "\n", "\n">>
    \o << "{execution result:}" >> \o <<"\n">> \o error \o <<"\n", "\n">>
    \o << "{additional user instructions }" >> \o <<"(", "F", "e", "e", "d", "b", "a", "c", "k", ")", ":", "\n">>
    \o (IF user_feedback /= <<>> THEN user_feedback ELSE << "{none}" >>) \o <<"\n", "\n">>
    \o << "{request: fix the code according to the result and the instructions}" >>

\* main.py:247-253: the arguments the endpoint hands to generator.fix_code
PromptOfRequest(request) ==
    UserPrompt(request.original_code, request.url, request.goal,
               request.execution_result, request.user_feedback)

FixSources == { Render(P_raise), Render(P_noscrape) }
Goals == { <<"p", "r", "i", "c", "e", "s">>, <<"t", "i", "t", "l", "e", "s">> }
ExecutionReports == { <<"V", "a", "l", "u", "e", "E", "r", "r", "o", "r", ":", " ", "b", "a", "d">>, MsgMustDefineScrape }
Feedbacks == { <<>>, <<"u", "s", "e", " ", "t", "h", "e", " ", "t", "a", "b", "l", "e">> }

FixRequests ==
    { FixRequest(c, u, g, e, f) :
        c \in FixSources, u \in Urls, g \in Goals, e \in ExecutionReports, f \in Feedbacks }

\* what the oracle may answer: the code alone, with or without surrounding
\* whitespace, in a python fence with or without prose around it, in an
\* untagged fence, or in a python fence that is never closed
OracleReplies ==
    LET code == Strip(Render(P_ok))
    IN  { code,
          code \o <<"\n">>,
          <<" ", " ">> \o code,
          <<"{backquote}", "{backquote}", "{backquote}", "p", "y", "t", "h", "o", "n", "\n">> \o code \o <<"\n", "{backquote}", "{backquote}", "{backquote}">>,
          <<"H", "e", "r", "e", " ", "i", "s", " ", "t", "h", "e", " ", "f", "i", "x", ":", "\n", "{backquote}", "{backquote}", "{backquote}", "p", "y", "t", "h", "o", "n", "\n">> \o code \o <<"\n", "{backquote}", "{backquote}", "{backquote}", "\n", "D", "o", "n", "e", ".", "\n">>,
          <<"{backquote}", "{backquote}", "{backquote}", "p", "y", "t", "h", "o", "n">> \o code \o <<"{backquote}", "{backquote}", "{backquote}">>,
          <<"{backquote}", "{backquote}", "{backquote}", "\n">> \o code \o <<"\n", "{backquote}", "{backquote}", "{backquote}">>,
          <<"{backquote}", "{backquote}", "{backquote}", "p", "y", "t", "h", "o", "n", "\n">> \o code \o <<"\n">> }

FixInit ==
    /\ frame = IdleFrame
    /\ sys_stdout = HostStream
    /\ streams = [i \in StreamIds |-> <<>>]
    /\ loaded = {}
    /\ patched = {}
    /\ result = <<>>
    /\ escaped = <<>>
    /\ installed \in Environments
    /\ session = NoSession
    /\ fix = IdleFix
    /\ other = IdleActivation
    /\ download = NoDownload
    /\ client = NewClient
    /\ endpoint = IdleEndpoint

\* fix_code: the request arrives and the prompt goes to the oracle
FixCode(request) ==
    /\ fix.pc = "idle"
    /\ fix' = [fix EXCEPT !.pc = "asked", !.request = << request >>,
                          !.prompt = PromptOfRequest(request)]
    /\ UNCHANGED <<engineVars, session, other, download, client, endpoint>>

\* the oracle's reply arrives and the endpoint returns {"fixed_code": ...}
FixReturn(response_content) ==
    /\ fix.pc = "asked"
    /\ fix' = [fix EXCEPT !.pc = "returned", !.reply = response_content,
                          !.fixed_code = ExtractCode(response_content)]
    /\ UNCHANGED <<engineVars, session, other, download, client, endpoint>>

FixNext ==
    \/ \E request \in FixRequests : FixCode(request)
    \/ \E response_content \in OracleReplies : FixReturn(response_content)

FixSpec == FixInit /\ [][FixNext]_vars

\* ------------------------------------------------------------------------
\* Two calls of execute in one process, on two threads: sys.stdout, the
\* module cache and the module objects belong to the process, the
\* activation (old_stdout, captured_output, exec_globals) to the thread
\* ------------------------------------------------------------------------
Threads == {1, 2}

\* the programs the two threads run: with and without output, ending in each way
ThreadPrograms == { P_ok, P_print_ok, P_upper, P_raise }

\* the process as thread t sees it
MachineOf(t) ==
    IF t = 1 THEN Machine
    ELSE [Machine EXCEPT !.frame = other.frame, !.result = other.result,
                         !.escaped = other.escaped]

InstallFor(t, M) ==
    /\ sys_stdout' = M.sys_stdout
    /\ streams' = M.streams
    /\ loaded' = M.loaded
    /\ patched' = M.patched
    /\ IF t = 1
       THEN /\ frame' = M.frame
            /\ result' = M.result
            /\ escaped' = M.escaped
            /\ UNCHANGED other
       ELSE /\ other' = [frame |-> M.frame, result |-> M.result, escaped |-> M.escaped]
            /\ UNCHANGED <<frame, result, escaped>>

ActiveOn(t) == MachineOf(t).frame.pc \in {"top", "scrape"}

\* the calls made so far, by either thread
CallsMade == IF frame.callNo > other.frame.callNo THEN frame.callNo ELSE other.frame.callNo

\* thread t enters execute: old_stdout = sys.stdout; sys.stdout = StringIO()
ExecuteOn(t, code, url) ==
    /\ ~ActiveOn(t)
    /\ CallsMade < MaxThreadCalls
    /\ InstallFor(t, Enter(MachineOf(t), code, url, CallsMade + 1))
    /\ UNCHANGED <<installed, session, fix, download, client, endpoint>>

\* the candidate program of thread t runs its next statement
RunStatementOn(t) ==
    /\ ActiveOn(t)
    /\ LET M == MachineOf(t)
       IN  InstallFor(t, Advance(ExecStmt(M, Block(M)[M.frame.ip])))
    /\ UNCHANGED <<installed, session, fix, download, client, endpoint>>

ThreadNext ==
    \/ \E t \in Threads, code \in ThreadPrograms, url \in Urls : ExecuteOn(t, code, url)
    \/ \E t \in Threads : RunStatementOn(t)

ThreadSpec == Init /\ [][ThreadNext]_vars

\* ------------------------------------------------------------------------
\* POST /download (main.py, download_scraper): the scraper packaged as a ZIP.
\* The fixed bodies of the generated files are single opaque elements.
\* ------------------------------------------------------------------------
AsciiLetters ==
    LET s == <<"a", "b", "c", "d", "e", "f", "g", "h", "i", "j", "k", "l", "m", "n", "o", "p", "q", "r", "s", "t", "u", "v", "w", "x", "y", "z", "A", "B", "C", "D", "E", "F", "G", "H", "I", "J", "K", "L", "M", "N", "O", "P", "Q", "R", "S", "T", "U", "V", "W", "X", "Y", "Z">>
    IN  { s[i] : i \in 1..Len(s) }

AsciiAlnum ==
    LET s == <<"0", "1", "2", "3", "4", "5", "6", "7", "8", "9">>
    IN  AsciiLetters \cup { s[i] : i \in 1..Len(s) }

\* urllib.parse: scheme_chars
scheme_chars == AsciiAlnum \cup {"+", "-", "."}

\* urlsplit: the url once a leading scheme and its colon are taken off
AfterScheme(url) ==
    LET i == FirstIndex(url, ":")
    IN  IF i > 1 /\ url[1] \in AsciiLetters /\ \A j \in 1..(i - 1) : url[j] \in scheme_chars
        THEN SubSeq(url, i + 1, Len(url))
        ELSE url

\* urlparse(url).netloc: what follows '//' up to the first of '/', '?', '#'
Netloc(url) ==
    LET rest == AfterScheme(url)
        stops == { j \in 3..Len(rest) : rest[j] \in {"/", "?", "#"} }
        delim == IF stops = {} THEN Len(rest) + 1
                 ELSE CHOOSE j \in stops : \A k \in stops : j <= k
    IN  IF StartsWith(rest, <<"/", "/">>) THEN SubSeq(rest, 3, delim - 1) ELSE <<>>

\* urlsplit raises ValueError("Invalid IPv6 URL") on an unbalanced bracket
InvalidNetloc(netloc) ==
    LET open == \E i \in 1..Len(netloc) : netloc[i] = "["
        close == \E i \in 1..Len(netloc) : netloc[i] = "]"
    IN  open /= close

\* re.sub(r'[^a-zA-Z0-9]', '_', domain) without the replacement of dots
SafeDomainKeepingDots(domain) ==
    [i \in 1..Len(domain) |->
        IF domain[i] \in AsciiAlnum \cup {"."} THEN domain[i] ELSE "_"]

\* re.sub(r'[^a-zA-Z0-9]', '_', domain)
SafeDomain(domain) ==
    [i \in 1..Len(domain) |-> IF domain[i] \in AsciiAlnum THEN domain[i] ELSE "_"]

pep723_header ==
    <<"#", " ", "/", "/", "/", " ", "s", "c", "r", "i", "p", "t", "\n", "#", " ", "r", "e", "q", "u", "i", "r", "e", "s", "-", "p", "y", "t", "h", "o", "n", " ", "=", " ", "\"", ">", "=", "3", ".", "1", "1", "\"", "\n", "#", " ", "d", "e", "p", "e", "n", "d", "e", "n", "c", "i", "e", "s", " ", "=", " ", "[", "\n">>
    \o <<"#", " ", " ", " ", " ", " ", "\"", "r", "e", "q", "u", "e", "s", "t", "s", "\"", ",", "\n", "#", " ", " ", " ", " ", " ", "\"", "b", "e", "a", "u", "t", "i", "f", "u", "l", "s", "o", "u", "p", "4", "\"", ",", "\n", "#", " ", " ", " ", " ", " ", "\"", "p", "a", "n", "d", "a", "s", "\"", ",", "\n">>
    \o <<"#", " ", " ", " ", " ", " ", "\"", "o", "p", "e", "n", "p", "y", "x", "l", "\"", ",", "\n", "#", " ", "]", "\n", "#", " ", "/", "/", "/", "\n">>

\* files[name] = content on a dict that keeps insertion order
SetItem(files, name, content) ==
    IF \E i \in 1..Len(files) : files[i].name = name
    THEN [i \in 1..Len(files) |->
            IF files[i].name = name THEN [name |-> name, content |-> content]
            ELSE files[i]]
    ELSE Append(files, [name |-> name, content |-> content])

RunBat(filename) ==
    << "{run.bat: look for uv}" >>
    \o <<"e", "c", "h", "o", " ", "[", "S", "m", "a", "r", "t", "S", "c", "r", "a", "p", "e", "r", "]", " ", "R", "u", "n", "n", "i", "n", "g", ":", " ", "u", "v", " ", "r", "u", "n", " ">> \o filename \o <<".", "p", "y", "\n", "u", "v", " ", "r", "u", "n", " ">>
    \o filename \o <<".", "p", "y", " ", ">", " ", "r", "e", "s", "u", "l", "t", ".", "t", "x", "t", " ", "2", ">", "&", "1", "\n", "g", "o", "t", "o", " ", "D", "O", "N", "E", "\n", "\n">>
    \o << "{run.bat: create and activate the venv}" >>
    \o <<"p", "y", "t", "h", "o", "n", " ">> \o filename \o <<".", "p", "y", " ", ">", " ", "r", "e", "s", "u", "l", "t", ".", "t", "x", "t", " ", "2", ">", "&", "1", "\n">>
    \o << "{run.bat: done}" >>

SetupTaskPs1(safe_domain, filename, url) ==
    <<"$", "T", "a", "s", "k", "N", "a", "m", "e", " ", "=", " ", "\"", "S", "m", "a", "r", "t", "S", "c", "r", "a", "p", "e", "r", "-">> \o safe_domain
    \o <<"\"", "\n", "$", "S", "c", "r", "i", "p", "t", "P", "a", "t", "h", " ", "=", " ", "\"", "$", "P", "S", "S", "c", "r", "i", "p", "t", "R", "o", "o", "t", "\\">> \o filename \o <<".", "p", "y", "\"", "\n">>
    \o << "{setup_task.ps1: choose uv or python, action and trigger}" >>
    \o <<" ", "-", "D", "e", "s", "c", "r", "i", "p", "t", "i", "o", "n", " ", "\"", "D", "a", "i", "l", "y", " ", "S", "m", "a", "r", "t", "S", "c", "r", "a", "p", "e", "r", " ", "e", "x", "e", "c", "u", "t", "i", "o", "n", " ", "f", "o", "r", " ">> \o url \o <<"\"", " ", "-", "F", "o", "r", "c", "e", "\n">>
    \o << "{setup_task.ps1: messages}" >>

ReadmeMd(filename, domain, url) ==
    <<"#", " ">> \o << "{spider}" >> \o <<" ">> \o filename \o <<" ", "(">> \o domain
    \o <<")", "\n", "\n", "T", "a", "r", "g", "e", "t", ":", " ">> \o url \o <<"\n", "\n">> \o << "{README.md: how to run}" >>

\* the dict `files` of download_scraper
Files(request, domain, safe_domain) ==
    LET f1 == SetItem(<<>>, request.filename \o <<".", "p", "y">>,
                      pep723_header \o <<"\n">> \o request.code)
        f2 == SetItem(f1, <<"r", "e", "q", "u", "i", "r", "e", "m", "e", "n", "t", "s", ".", "t", "x", "t">>,
                      <<"r", "e", "q", "u", "e", "s", "t", "s", "\n", "b", "e", "a", "u", "t", "i", "f", "u", "l", "s", "o", "u", "p", "4", "\n", "p", "a", "n", "d", "a", "s", "\n", "o", "p", "e", "n", "p", "y", "x", "l">>)
        f3 == SetItem(f2, <<"r", "u", "n", ".", "b", "a", "t">>, RunBat(request.filename))
        f4 == SetItem(f3, <<"s", "e", "t", "u", "p", "_", "t", "a", "s", "k", ".", "p", "s", "1">>,
                      SetupTaskPs1(safe_domain, request.filename, request.url))
        f5 == SetItem(f4, <<"s", "e", "t", "u", "p", "_", "t", "a", "s", "k", ".", "b", "a", "t">>, << "{setup_task.bat}" >>)
    IN  SetItem(f5, <<"R", "E", "A", "D", "M", "E", ".", "m", "d">>, ReadmeMd(request.filename, domain, request.url))

DownloadRequest(code, url, filename) == [code |-> code, url |-> url, filename |-> filename]

\* the response of download_scraper: the ZIP, or the 500 of the except clause
DownloadResponse(request) ==
    LET domain == Netloc(request.url)
        safe_domain == SafeDomain(domain)
    IN  IF InvalidNetloc(domain)
        THEN [status |-> 500, zip_filename |-> <<>>, archive |-> <<>>,
              detail |-> <<"I", "n", "v", "a", "l", "i", "d", " ", "I", "P", "v", "6", " ", "U", "R", "L">>]
        ELSE [status |-> 200,
              zip_filename |-> <<"s", "c", "r", "a", "p", "e", "r", "_">> \o safe_domain \o <<".", "z", "i", "p">>,
              archive |-> Files(request, domain, safe_domain), detail |-> <<>>]

\* targets with a port, with user information, without a scheme and malformed
DownloadUrls ==
    Urls \cup { <<"h", "t", "t", "p", ":", "/", "/", "l", "o", "c", "a", "l", "h", "o", "s", "t", ":", "8", "0", "8", "1", "/", "l", "i", "s", "t">>, <<"h", "t", "t", "p", "s", ":", "/", "/", "b", "o", "t", "@", "a", ".", "e", "x", "a", "m", "p", "l", "e", "/">>,
                <<"a", ".", "e", "x", "a", "m", "p", "l", "e", "/", "l", "i", "s", "t">>, <<"h", "t", "t", "p", ":", "/", "/", "[", ":", ":", "1", "/", "x">> }

Filenames == { <<"s", "c", "r", "a", "p", "e", "r">>, <<"p", "r", "i", "c", "e", "s">>, <<"r", "u", "n", ".", "b", "a", "t">> }

DownloadCodes == { Render(P_ok), Render(P_print_ok), Render(P_noscrape), <<>> }

DownloadRequests ==
    { DownloadRequest(c, u, f) : c \in DownloadCodes, u \in DownloadUrls, f \in Filenames }

\* download_scraper
DownloadScraper(request) ==
    /\ download.served < MaxDownloads
    /\ download' = [served |-> download.served + 1, request |-> << request >>,
                    response |-> << DownloadResponse(request) >>]
    /\ UNCHANGED <<engineVars, session, fix, other, client, endpoint>>

DownloadNext == \E request \in DownloadRequests : DownloadScraper(request)

DownloadSpec == Init /\ [][DownloadNext]_vars

\* ------------------------------------------------------------------------
\* PlaywrightClient.analyze_page (browser/playwright_client.py): the steps are
\* the awaits of the coroutine; the awaits of the try body are one step
\* ------------------------------------------------------------------------
\* the errors the awaited operations raise, told apart by where they arose
Failure(kind, attempt) == [kind |-> kind, attempt |-> attempt]

\* Exception(f"... {url}: {last_error}")
CannotLoad(url, last_error) == [kind |-> "cannot load", url |-> url, cause |-> last_error]

\* range(max_retries) in place of range(max_retries + 1)
AttemptsWithoutFirst(max_retries) == max_retries

\* len(range(max_retries + 1))
Attempts(max_retries) == max_retries + 1

Raise(c, e) == [c EXCEPT !.pc = "raised", !.outcome = << e >>]

\* the head of the for loop: the next attempt, or the raise after the loop
LoopHead(c) ==
    IF c.attempt < Attempts(c.max_retries) THEN [c EXCEPT !.pc = "loop"]
    ELSE Raise(c, CannotLoad(c.url, c.last_error))

\* analyze_page is called
AnalyzePage(url, max_retries) ==
    /\ client.pc \in {"idle", "returned", "raised"}
    /\ client.calls < MaxAnalyses
    /\ LET c == [client EXCEPT !.url = url, !.max_retries = max_retries, !.attempt = 0,
                               !.pages = <<>>, !.last_error = <<>>, !.pending = <<>>,
                               !.outcome = <<>>, !.calls = @ + 1]
       IN  client' = IF c.browser THEN LoopHead(c) ELSE [c EXCEPT !.pc = "start"]
    /\ UNCHANGED <<engineVars, session, fix, other, download, endpoint>>

\* await self.start(): the browser comes up, or the launch raises
Start(ok) ==
    /\ client.pc = "start"
    /\ client' = IF ok THEN LoopHead([client EXCEPT !.browser = TRUE])
                  ELSE Raise(client, Failure("start", 0))
    /\ UNCHANGED <<engineVars, session, fix, other, download, endpoint>>

\* page = await self._browser.new_page(), outside the try
NewPage(ok) ==
    /\ client.pc = "loop"
    /\ client' =
          IF ok
          THEN [client EXCEPT !.pc = "try",
                              !.pages = Append(@, [attempt |-> client.attempt,
                                                   open |-> TRUE, ended |-> "loading"])]
          ELSE Raise(client, Failure("new_page", client.attempt))
    /\ UNCHANGED <<engineVars, session, fix, other, download, endpoint>>

\* the try body: it reaches the return, raises an Exception (caught, kept in
\* last_error), or the task is cancelled (CancelledError is no Exception)
Load(how) ==
    /\ client.pc = "try"
    /\ LET n == Len(client.pages)
           c == [client EXCEPT !.pc = "finally", !.pages[n].ended = how]
       IN  client' =
             CASE how = "ok" ->
                    [c EXCEPT !.pending = << [do |-> "return",
                                              value |-> [kind |-> "PageAnalysis",
                                                         url |-> c.url,
                                                         attempt |-> c.attempt]] >>]
               [] how = "error" ->
                    [c EXCEPT !.last_error = << Failure("load", c.attempt) >>,
                              !.pending = << [do |-> "continue", value |-> <<>>] >>]
               [] how = "cancelled" ->
                    [c EXCEPT !.pending = << [do |-> "raise",
                                              value |-> Failure("cancelled", c.attempt)] >>]
    /\ UNCHANGED <<engineVars, session, fix, other, download, endpoint>>

\* finally: await page.close(), then what the try statement was about to do
ClosePage ==
    /\ client.pc = "finally"
    /\ LET n == Len(client.pages)
           c == [client EXCEPT !.pages[n].open = FALSE, !.pending = <<>>]
           todo == client.pending[1]
       IN  client' =
             CASE todo.do = "return" ->
                    [c EXCEPT !.pc = "returned", !.outcome = << todo.value >>]
               [] todo.do = "continue" -> LoopHead([c EXCEPT !.attempt = @ + 1])
               [] todo.do = "raise" -> Raise(c, todo.value)
    /\ UNCHANGED <<engineVars, session, fix, other, download, endpoint>>

ClientNext ==
    \/ \E url \in Urls, max_retries \in 0..MaxRetries : AnalyzePage(url, max_retries)
    \/ \E ok \in BOOLEAN : Start(ok)
    \/ \E ok \in BOOLEAN : NewPage(ok)
    \/ \E how \in {"ok", "error", "cancelled"} : Load(how)
    \/ ClosePage

ClientSpec == Init /\ [][ClientNext]_vars

\* ------------------------------------------------------------------------
\* The endpoints that use the oracle (main.py): /analyze, /generate, /fix and
\* /full. The steps are the awaits of the handlers; the sandbox execution of
\* /full has no await and is part of the step that reaches it.
\* ------------------------------------------------------------------------
Paths == {"/analyze", "/generate", "/fix", "/full"}

\* the programs the generator answers with in /full
GeneratedPrograms == { P_ok, P_raise, P_exit }

\* PageAnalyzer() or ScraperGenerator(): a new agent, not closed yet
Create(e, class, stage) ==
    [e EXCEPT !.pc = "await", !.stage = stage,
              !.agents = Append(@, [class |-> class, closes |-> 0])]

Finish(e, response) == [e EXCEPT !.pc = "done", !.stage = "", !.response = response]

\* a request arrives; without a browser the three page endpoints answer 500
Request(path, url, auto_execute, browser_client) ==
    /\ endpoint.pc \in {"idle", "done"}
    /\ endpoint.served < MaxRequests
    /\ LET e == [IdleEndpoint EXCEPT !.path = path, !.url = url, !.auto_execute = auto_execute,
                                     !.served = endpoint.served + 1]
       IN  endpoint' =
             IF path = "/fix" THEN Create(e, "ScraperGenerator", "fix")
             ELSE IF ~browser_client THEN Finish(e, "HTTPException 500")
             ELSE [e EXCEPT !.pc = "await", !.stage = "page"]
    /\ UNCHANGED <<engineVars, session, fix, other, download, client>>

\* await browser_client.analyze_page(request.url) returns or raises
PageData(ok) ==
    /\ endpoint.pc = "await"
    /\ endpoint.stage = "page"
    /\ endpoint' = IF ok THEN Create(endpoint, "PageAnalyzer", "analyze")
                    ELSE Finish(endpoint, "raised")
    /\ UNCHANGED <<engineVars, session, fix, other, download, client>>

\* the oracle call of the try body returns, raises or is cancelled; the
\* finally clause is entered either way
OracleEnds(how, code) ==
    /\ endpoint.pc = "await"
    /\ endpoint.stage \in {"analyze", "generate", "fix"}
    /\ endpoint' =
          [endpoint EXCEPT
              !.pc = "finally",
              !.pending = how,
              !.analysis = IF endpoint.stage = "analyze" /\ how = "ok" THEN TRUE ELSE @,
              !.generation = IF endpoint.stage = "generate" /\ how = "ok"
                             THEN << code >> ELSE @]
    /\ UNCHANGED <<engineVars, session, fix, other, download, client>>

\* /full step 4 is reached: generation returned and auto_execute is set
ReachesExecution(e) ==
    e.pending = "ok" /\ e.stage = "generate" /\ e.path = "/full" /\ e.auto_execute

\* executor.execute(code_result.code, request.url), a synchronous call
ExecutionOf(e) == RunToEnd(Enter(Machine, e.generation[1], e.url, frame.callNo + 1))

\* what the handler does after the finally clause of a stage
AfterFinally(e) ==
    IF e.pending /= "ok" THEN Finish(e, "raised")
    ELSE CASE e.stage = "fix" -> Finish(e, "result")
           [] e.stage = "analyze" ->
                IF e.path = "/analyze" THEN Finish(e, "result")
                ELSE Create(e, "ScraperGenerator", "generate")
           [] e.stage = "generate" ->
                IF ReachesExecution(e)
                THEN LET ending == Ending(ExecutionOf(e))
                     IN  Finish([e EXCEPT !.executions = Append(@, ending)],
                                IF ending = "Raised" THEN "raised" ELSE "result")
                ELSE Finish(e, "result")

\* a handler that closes the agent only when the oracle call returned
CloseOnlyOnSuccess(e) ==
    IF e.pending = "ok"
    THEN [e EXCEPT !.agents[Len(e.agents)].closes = @ + 1]
    ELSE e

\* finally: await analyzer.close() / await generator.close()
Close(e) == [e EXCEPT !.agents[Len(e.agents)].closes = @ + 1]

\* the finally clause of the current stage, and the handler up to its next await
CloseAgent ==
    /\ endpoint.pc = "finally"
    /\ endpoint' = AfterFinally(Close(endpoint))
    /\ IF ReachesExecution(endpoint) THEN Install(ExecutionOf(endpoint))
       ELSE UNCHANGED <<frame, sys_stdout, streams, loaded, patched, result, escaped>>
    /\ UNCHANGED <<installed, session, fix, other, download, client>>

EndpointNext ==
    \/ \E path \in Paths, url \in Urls, auto_execute \in BOOLEAN,
          browser_client \in BOOLEAN :
            Request(path, url, auto_execute, browser_client)
    \/ \E ok \in BOOLEAN : PageData(ok)
    \/ \E how \in {"ok", "error", "cancelled"}, code \in GeneratedPrograms :
            OracleEnds(how, code)
    \/ CloseAgent

EndpointSpec == Init /\ [][EndpointNext]_vars

\* ------------------------------------------------------------------------
\* Properties
\* ------------------------------------------------------------------------
Returned == frame.pc = "returned" /\ result /= <<>>

HasDeniedSubstring(code) ==
    \E i \in 1..Len(dangerous_keywords) : Contains(Render(code), dangerous_keywords[i])

\* C1: a call whose source text contains a denied substring returns a failure
\* classified PolicyViolation with empty stdout, and nothing of the source is
\* evaluated: no namespace is built, no statement runs, scrape is not invoked.
C1_DeniedSubstringRejected ==
    (frame.callNo > 0 /\ HasDeniedSubstring(frame.code)) =>
        /\ Returned
        /\ ~result[1].success
        /\ Outcome(result[1]) = "PolicyViolation"
        /\ result[1].stdout = <<>>
        /\ ~frame.built /\ ~frame.ran /\ ~frame.invoked
        /\ frame.written = <<>>

\* a source that only contains a keyword inside a longer word, defines scrape
\* and would print, and one that would raise at top level
C1_Witness ==
    /\ Returned
    /\ frame.code \in {P_substring, P_keyword}
    /\ Outcome(result[1]) = "PolicyViolation"

\* C2: no call of execute lets an exception through to its caller.
C2_NothingEscapes == escaped = <<>> /\ frame.pc /= "raised"

\* C3: once scrape has run for longer than the timeout the call has returned,
\* with outcome Timeout and the stdout written so far.
C3_TimeoutEnforced ==
    frame.elapsed > frame.timeout =>
        /\ Returned
        /\ Outcome(result[1]) = "Timeout"
        /\ result[1].stdout = frame.written

\* C4: whenever no call is in progress sys.stdout is the host's stream, the
\* host's stream has received nothing from a candidate program, and a result's
\* stdout holds only what its own call wrote.
C4_StdoutRestored ==
    /\ ~Active => sys_stdout = HostStream
    /\ streams[HostStream] = <<>>
    /\ result /= <<>> =>
          \A i \in 1..Len(result[1].stdout) : result[1].stdout[i].by = frame.callNo

\* a later call that returned or let an exception through after writing
C4_Witness ==
    /\ frame.callNo >= 2
    /\ ~Active
    /\ frame.written /= <<>>
    /\ sys_stdout = HostStream

\* C5: a call in which the import of a module outside the allowlist was
\* attempted returns ModuleDenied with the module named in the message, and
\* the module is not loaded.
C5_ModuleDenied ==
    frame.denied /= <<>> =>
        /\ Returned
        /\ Outcome(result[1]) = "ModuleDenied"
        /\ Contains(result[1].error[1], frame.denied[1])
        /\ frame.denied[1] \notin loaded

\* C6: a call whose top-level evaluation left no callable scrape returns
\* MissingEntryPoint and invokes nothing.
C6_MissingEntryPoint ==
    frame.entry \in {"absent", "not callable"} =>
        /\ Returned
        /\ Outcome(result[1]) = "MissingEntryPoint"
        /\ ~frame.invoked

\* C7: the data of a result is present exactly when the outcome is Success.
C7_PayloadIffSuccess ==
    result /= <<>> => (result[1].data /= NoneValue <=> Outcome(result[1]) = "Success")

\* C8: the stdout of every result is everything the program wrote during the call.
C8_StdoutAlwaysCaptured ==
    result /= <<>> => result[1].stdout = frame.written

Outcomes(history) == [i \in 1..Len(history) |-> Outcome(history[i].result)]

\* C9: attempt numbers start at 1 and strictly increase, and a session with
\* maxAttempts = N never makes more than N engine calls.
C9_AttemptsBounded ==
    /\ session.attempt >= 1
    /\ session.engineCalls <= session.maxAttempts
    /\ session.engineCalls <= session.attempt
    /\ \A i \in 1..Len(session.history) :
          /\ i = 1 => session.history[i].attempt = 1
          /\ \A j \in 1..(i - 1) : session.history[j].attempt < session.history[i].attempt
    /\ session.state = "GaveUp" => session.engineCalls = session.maxAttempts

\* a session that used all of its attempts, more than one
C9_Witness ==
    /\ session.state = "GaveUp"
    /\ session.maxAttempts >= 2
    /\ session.engineCalls = session.maxAttempts
    /\ Len(session.history) = session.maxAttempts

\* C10: a session is Succeeded exactly from the first attempt whose outcome is
\* Success, it then makes no further engine or oracle call, and with
\* maxAttempts = 3 and outcomes RuntimeFailure, RuntimeFailure, Success it is
\* Succeeded at attempt 3 with a history of 3 pairs.
C10_SucceededAtFirstSuccess ==
    /\ [](LET h == session.history
              o == Outcomes(h)
          IN  /\ session.state = "Succeeded" =>
                    /\ Len(h) = session.attempt
                    /\ o[Len(h)] = "Success"
                    /\ \A i \in 1..(Len(h) - 1) : o[i] /= "Success"
              /\ (\E i \in 1..Len(h) : o[i] = "Success") => session.state = "Succeeded"
              /\ (session.maxAttempts = 3 /\ Len(h) >= 3
                    /\ SubSeq(o, 1, 3) = <<"RuntimeFailure", "RuntimeFailure", "Success">>) =>
                    /\ session.state = "Succeeded"
                    /\ session.attempt = 3
                    /\ Len(h) = 3)
    /\ [][session.state = "Succeeded" => (session' = session /\ frame' = frame)]_vars

\* scenario E
C10_Witness ==
    /\ session.state = "Succeeded"
    /\ session.maxAttempts = 3
    /\ Outcomes(session.history) = <<"RuntimeFailure", "RuntimeFailure", "Success">>

\* C11: when an attempt ends with a non-Success outcome the session moves to
\* NeedsRepair if attempt < maxAttempts and to GaveUp if attempt = maxAttempts,
\* whatever the failure kind, and from NeedsRepair the only step is the repair
\* request to the oracle.
C11_RetryByAttemptCountOnly ==
    /\ [][(session.state = "Executing" /\ session'.state /= "Executing"
            /\ Outcome(result[1]) /= "Success") =>
              /\ session.attempt < session.maxAttempts => session'.state = "NeedsRepair"
              /\ session.attempt = session.maxAttempts => session'.state = "GaveUp"
              /\ session'.attempt = session.attempt]_vars
    /\ [][session.state = "NeedsRepair" =>
              /\ session'.state = "Repairing"
              /\ session'.oracleCalls = session.oracleCalls + 1]_vars
    /\ [](session.state \in {"NeedsRepair", "Repairing"} =>
              session.attempt < session.maxAttempts)
    /\ [](session.state = "GaveUp" => session.attempt = session.maxAttempts)

\* a session that met three different failure kinds, asked for a repair after
\* the first two and gave up after the third
C11_Witness ==
    /\ session.state = "GaveUp"
    /\ session.oracleCalls = 2
    /\ Outcomes(session.history) = <<"PolicyViolation", "MissingEntryPoint", "ModuleDenied">>

\* the repair request reaches the oracle with every field of the request under
\* its heading, unmodified
PromptCarriesRequest ==
    LET r == fix.request[1]
    IN  /\ Contains(fix.prompt, << "{target url: }" >> \o r.url \o <<"\n">>)
        /\ Contains(fix.prompt, << "{user goal: }" >> \o r.goal \o <<"\n">>)
        /\ Contains(fix.prompt, <<"{backquote}", "{backquote}", "{backquote}", "p", "y", "t", "h", "o", "n", "\n">> \o r.original_code \o <<"\n", "{backquote}", "{backquote}", "{backquote}">>)
        /\ Contains(fix.prompt,
                    << "{execution result:}" >> \o <<"\n">> \o r.execution_result \o <<"\n">>)
        /\ r.user_feedback /= <<>> =>
              Contains(fix.prompt, <<"(", "F", "e", "e", "d", "b", "a", "c", "k", ")", ":", "\n">> \o r.user_feedback \o <<"\n">>)

\* the reply holds a block opened by ```python and closed by a later ```
HasPythonBlock(reply) ==
    \E i \in 1..(Len(reply) - Len(PythonFence) + 1) :
        /\ SubSeq(reply, i, i + Len(PythonFence) - 1) = PythonFence
        /\ \E j \in (i + Len(PythonFence))..(Len(reply) - Len(Fence) + 1) :
              SubSeq(reply, j, j + Len(Fence) - 1) = Fence

\* the text between the first ```python and the first ``` after it
PythonBlockContent(reply) ==
    LET i == FindFrom(reply, PythonFence, 1)
        j == FindFrom(reply, Fence, i + Len(PythonFence))
    IN  SubSeq(reply, i + Len(PythonFence), j - 1)

C13_Idempotent ==
    (frame.callNo > 0 /\ ~Active) =>
        Ending(Machine) = Ending(RunToEnd(Enter(FreshMachine, frame.code, frame.url, 1)))

\* C14: under interleaved calls of execute, the stdout of each result holds
\* only what the call's own program printed, and once no call is running
\* sys.stdout is the host's original stream.
C14_CallsShareNothing ==
    /\ \A t \in Threads :
          LET M == MachineOf(t)
          IN  M.result /= <<>> =>
                \A i \in 1..Len(M.result[1].stdout) :
                    M.result[1].stdout[i].by = M.frame.callNo
    /\ (frame.callNo > 0 /\ other.frame.callNo > 0 /\ ~ActiveOn(1) /\ ~ActiveOn(2))
          => sys_stdout = HostStream

\* the archive member of that name, <<>> when there is none
Member(archive, name) ==
    LET hits == { i \in 1..Len(archive) : archive[i].name = name }
    IN  IF hits = {} THEN <<>> ELSE archive[CHOOSE i \in hits : TRUE].content

\* the first double-quoted string of a text: the value of $TaskName
FirstQuoted(text) ==
    LET i == FirstIndex(text, "\"")
        rest == SubSeq(text, i + 1, Len(text))
        j == FirstIndex(rest, "\"")
    IN  SubSeq(rest, 1, j - 1)

\* the host of a url: its network location without user information and port
Host(url) ==
    LET netloc == Netloc(url)
        at == { i \in 1..Len(netloc) : netloc[i] = "@" }
        hostport == IF at = {} THEN netloc
                    ELSE SubSeq(netloc, (CHOOSE i \in at : \A k \in at : k <= i) + 1,
                                Len(netloc))
        colon == FirstIndex(hostport, ":")
    IN  IF colon = 0 THEN hostport ELSE SubSeq(hostport, 1, colon - 1)

\* text is `domain` with every character outside [a-zA-Z0-9] replaced by '_'
IsSanitized(text, domain) ==
    /\ Len(text) = Len(domain)
    /\ \A i \in 1..Len(domain) :
          text[i] = IF domain[i] \in AsciiAlnum THEN domain[i] ELSE "_"

SixFiles(request) ==
    { request.filename \o <<".", "p", "y">>, <<"r", "e", "q", "u", "i", "r", "e", "m", "e", "n", "t", "s", ".", "t", "x", "t">>, <<"r", "u", "n", ".", "b", "a", "t">>,
      <<"s", "e", "t", "u", "p", "_", "t", "a", "s", "k", ".", "p", "s", "1">>, <<"s", "e", "t", "u", "p", "_", "t", "a", "s", "k", ".", "b", "a", "t">>, <<"R", "E", "A", "D", "M", "E", ".", "m", "d">> }

HasSixFiles(request, archive) ==
    /\ Len(archive) = 6
    /\ { archive[i].name : i \in 1..Len(archive) } = SixFiles(request)

TaskNameFrom(archive, domain) ==
    LET name == FirstQuoted(Member(archive, <<"s", "e", "t", "u", "p", "_", "t", "a", "s", "k", ".", "p", "s", "1">>))
        prefix == <<"S", "m", "a", "r", "t", "S", "c", "r", "a", "p", "e", "r", "-">>
    IN  /\ StartsWith(name, prefix)
        /\ IsSanitized(SubSeq(name, Len(prefix) + 1, Len(name)), domain)

\* C15 as stated: every returned archive holds exactly the six files, the
\* script is the PEP 723 header followed by the submitted code, and the task
\* name is 'SmartScraper-' plus the sanitized host of the url.
C15_ArchiveNamedAfterHost ==
    \A i \in 1..Len(download.response) :
        LET request == download.request[i]
            response == download.response[i]
            script == Member(response.archive, request.filename \o <<".", "p", "y">>)
        IN  response.status = 200 =>
              /\ HasSixFiles(request, response.archive)
              /\ StartsWith(script, pep723_header)
              /\ SubSeq(script, Len(script) - Len(request.code) + 1, Len(script))
                    = request.code
              /\ TaskNameFrom(response.archive, Host(request.url))

\* C15 amended: every returned archive holds exactly the six files, the
\* script is the PEP 723 header, an empty line and the submitted code, and the
\* task name is 'SmartScraper-' plus the sanitized network location of the
\* url (user information and port included).
C15_ArchiveNamedAfterNetloc ==
    \A i \in 1..Len(download.response) :
        LET request == download.request[i]
            response == download.response[i]
        IN  response.status = 200 =>
              /\ HasSixFiles(request, response.archive)
              /\ Member(response.archive, request.filename \o <<".", "p", "y">>)
                    = pep723_header \o <<"\n">> \o request.code
              /\ TaskNameFrom(response.archive, Netloc(request.url))

\* an archive was returned for a url whose network location has a port
C15_Witness ==
    /\ download.response /= <<>>
    /\ download.response[1].status = 200
    /\ download.request[1].url = <<"h", "t", "t", "p", ":", "/", "/", "l", "o", "c", "a", "l", "h", "o", "s", "t", ":", "8", "0", "8", "1", "/", "l", "i", "s", "t">>
    /\ FirstQuoted(Member(download.response[1].archive, <<"s", "e", "t", "u", "p", "_", "t", "a", "s", "k", ".", "p", "s", "1">>))
          = <<"S", "m", "a", "r", "t", "S", "c", "r", "a", "p", "e", "r", "-", "l", "o", "c", "a", "l", "h", "o", "s", "t", "_", "8", "0", "8", "1">>

\* the blocked names a namespace binds, in its builtins or in its globals
BlockedNamesBound(ns) == BLOCKED_BUILTINS \cap (ns.builtins \cup DOMAIN ns.names)

\* the call has built its namespace and the program has not run a statement yet
NamespaceJustBuilt == frame.pc = "top" /\ frame.built /\ ~frame.ran

\* C16 as stated: a namespace the environment builder produced binds no
\* blocked name, neither in its builtins nor in its globals.
C16_NoBlockedNameBound ==
    NamespaceJustBuilt => BlockedNamesBound(frame.exec_globals) = {}

\* C16 amended: a namespace the environment builder produced binds exactly
\* one blocked name, __import__, and binds it in its builtins only.
C16_OnlyImportBound ==
    NamespaceJustBuilt =>
        /\ BlockedNamesBound(frame.exec_globals) = { <<"_", "_", "i", "m", "p", "o", "r", "t", "_", "_">> }
        /\ <<"_", "_", "i", "m", "p", "o", "r", "t", "_", "_">> \in frame.exec_globals.builtins
        /\ <<"_", "_", "i", "m", "p", "o", "r", "t", "_", "_">> \notin DOMAIN frame.exec_globals.names

\* a namespace was built: it has print and __import__ but not open
C16_Witness ==
    /\ NamespaceJustBuilt
    /\ <<"p", "r", "i", "n", "t">> \in frame.exec_globals.builtins
    /\ <<"_", "_", "i", "m", "p", "o", "r", "t", "_", "_">> \in frame.exec_globals.builtins
    /\ <<"o", "p", "e", "n">> \notin frame.exec_globals.builtins

\* the names the top-level statements of a program bind in its namespace
BoundBy(code) ==
    { code[i].arg : i \in { j \in 1..Len(code) :
                              \/ code[j].op = "def"
                              \/ code[j].op = "assign" /\ ~Contains(code[j].arg, <<".">>) } }
    \cup { BaseName(code[i].arg) : i \in { j \in 1..Len(code) : code[j].op = "import" } }

PassedPreScan == frame.callNo > 0 /\ FirstKeyword(Render(frame.code)) = 0

\* the bindings of earlier executions a namespace gives access to: attributes
\* rebound on a module object that one of its names refers to
LeftOver(ns) == { a \in patched : Resolves(ns, BaseName(a)) }

\* the globals of the call hold nothing but the builder's names and the
\* names its own program bound, and scrape is invoked only if that program
\* defines it
NamesAreOwn ==
    /\ NamespaceJustBuilt => DOMAIN frame.exec_globals.names = PreBoundNames
    /\ Active => DOMAIN frame.exec_globals.names \subseteq
                    PreBoundNames \cup BoundBy(frame.code)
    /\ frame.invoked => <<"s", "c", "r", "a", "p", "e">> \in BoundBy(frame.code)

\* C17: every call that passes the pre-scan builds a namespace, the namespace
\* as built gives access to nothing an earlier execution bound, and a program
\* that lacks scrape is never invoked through an earlier program's scrape.
C17_FreshNamespacePerCall ==
    /\ PassedPreScan => frame.built
    /\ NamespaceJustBuilt => LeftOver(frame.exec_globals) = {}
    /\ NamesAreOwn

\* the programs whose scrape returns, without raising, something that is not
\* a list of records: a single map and None
MalformedReturns == { P_upper, P_none }

\* C18: a Success result carries a list of records, and a scrape that
\* returns a value of another kind ends in RuntimeFailure.
C18_SuccessOnlyForRecords ==
    /\ (result /= <<>> /\ Outcome(result[1]) = "Success") =>
            result[1].data.kind = "list"
    /\ (Returned /\ frame.invoked /\ frame.code \in MalformedReturns) =>
            Outcome(result[1]) = "RuntimeFailure"

\* C19: when the program raised an exception that is neither a module denial
\* nor a missing dependency, the message of the failure result is exactly
\* '<type>: <message>' of that exception, and nothing else.
C19_MessageIsTypeAndText ==
    (/\ Returned
     /\ frame.caught /= <<>>
     /\ frame.denied = <<>>
     /\ ~IsModuleNotFoundError(frame.caught[1].type))
    => /\ ~result[1].success
       /\ result[1].error = << frame.caught[1].type \o <<":", " ">> \o frame.caught[1].msg >>

\* the allowlisted module the call cannot load on this host, <<>> when there
\* is none: a module the environment builder pre-imports, or else the first
\* such module the program imports
MissingModuleOf(code) ==
    LET pre == FirstMissingPreImport(installed)
        idx == { i \in 1..Len(code) : /\ code[i].op = "import"
                                       /\ ImportAllowed(code[i].arg)
                                       /\ code[i].arg \notin installed }
    IN  IF pre /= 0 THEN << PreImports[pre] >>
        ELSE IF idx = {} THEN <<>>
        ELSE << code[CHOOSE i \in idx : \A j \in idx : i <= j].arg >>

\* the install command the lookup table and its default give for a module
ExpectedInstallCommand(m) ==
    IF m \in { <<"b", "s", "4">>, <<"b", "e", "a", "u", "t", "i", "f", "u", "l", "s", "o", "u", "p", "4">> } THEN <<"u", "v", " ", "a", "d", "d", " ", "b", "e", "a", "u", "t", "i", "f", "u", "l", "s", "o", "u", "p", "4">>
    ELSE IF m = <<"r", "e", "q", "u", "e", "s", "t", "s">> THEN <<"u", "v", " ", "a", "d", "d", " ", "r", "e", "q", "u", "e", "s", "t", "s">>
    ELSE <<"u", "v", " ", "a", "d", "d", " ">> \o m

\* C20: a call that needs an allowlisted module the host lacks returns a
\* failure that is not the generic '<type>: <message>' one; its message names
\* the missing module and gives the install command of the lookup table, or
\* the default command when the table has no entry; stdout is preserved.
C20_MissingModuleHint ==
    (Returned /\ PassedPreScan /\ MissingModuleOf(frame.code) /= <<>>) =>
        LET m == MissingModuleOf(frame.code)[1]
        IN  /\ frame.caught /= <<>>
            /\ IsModuleNotFoundError(frame.caught[1].type)
            /\ ~result[1].success
            /\ result[1].data = NoneValue
            /\ result[1].error =
                  << MsgMissingModule \o m \o MsgPleaseInstall
                     \o ExpectedInstallCommand(m) >>
            /\ result[1].error /=
                  << frame.caught[1].type \o <<":", " ">> \o frame.caught[1].msg >>
            /\ result[1].stdout = frame.written

\* the program printed and then imported json.plugin, which the host lacks:
\* the result names it, gives the default command and keeps the output
C20_Witness ==
    /\ Returned
    /\ frame.code = P_import_plugin
    /\ FirstMissingPreImport(installed) = 0
    /\ frame.written /= <<>>
    /\ result[1].stdout = frame.written
    /\ result[1].error =
          << MsgMissingModule \o <<"j", "s", "o", "n", ".", "p", "l", "u", "g", "i", "n">> \o MsgPleaseInstall
             \o <<"u", "v", " ", "a", "d", "d", " ", "j", "s", "o", "n", ".", "p", "l", "u", "g", "i", "n">> >>

\* the pages of the call that are open
OpenPages == { i \in 1..Len(client.pages) : client.pages[i].open }

\* at most max_retries + 1 pages, attempt by attempt, never two open at once,
\* none open when the next attempt starts or the call has ended
PagesOneByOne ==
    /\ Len(client.pages) <= client.max_retries + 1
    /\ \A i \in 1..Len(client.pages) : client.pages[i].attempt = i - 1
    /\ Cardinality(OpenPages) <= 1
    /\ client.pc \in {"loop", "returned", "raised"} => OpenPages = {}

\* the call returns the PageAnalysis of the first attempt that succeeded:
\* every attempt before it failed and none was made after it
ReturnsFirstSuccess ==
    client.pc = "returned" =>
        LET n == Len(client.pages)
        IN  /\ n >= 1
            /\ client.pages[n].ended = "ok"
            /\ \A i \in 1..(n - 1) : client.pages[i].ended = "error"
            /\ client.outcome =
                  << [kind |-> "PageAnalysis", url |-> client.url, attempt |-> n - 1] >>

\* all max_retries + 1 attempts were made and failed, and the error raised
\* carries the failure of the last one
AllAttemptsFailed ==
    /\ Len(client.pages) = client.max_retries + 1
    /\ \A i \in 1..Len(client.pages) : client.pages[i].ended = "error"
    /\ client.outcome =
          << CannotLoad(client.url, << Failure("load", client.max_retries) >>) >>

AllClosedOnce ==
    \A i \in 1..Len(endpoint.agents) : endpoint.agents[i].closes = 1

\* C22: no agent is ever closed twice, and when the endpoint has finished
\* every PageAnalyzer and ScraperGenerator it created has been closed exactly
\* once, whether the oracle call returned or raised; the sandbox execution
\* runs at most once, only in /full with auto_execute set, and only after
\* analysis and generation have completed and their agents are closed.
C22_AgentsClosedOnce ==
    /\ \A i \in 1..Len(endpoint.agents) : endpoint.agents[i].closes <= 1
    /\ endpoint.pc = "done" => AllClosedOnce
    /\ Len(endpoint.executions) <= 1
    /\ endpoint.executions /= <<>> =>
          /\ endpoint.path = "/full"
          /\ endpoint.auto_execute
          /\ endpoint.analysis
          /\ endpoint.generation /= <<>>
          /\ Len(endpoint.agents) = 2
          /\ AllClosedOnce

\* /full finished after its generation call raised: the analyzer and the
\* generator were each closed once and nothing was executed
C22_Witness ==
    /\ endpoint.pc = "done"
    /\ endpoint.path = "/full"
    /\ endpoint.auto_execute
    /\ endpoint.analysis
    /\ endpoint.generation = <<>>
    /\ endpoint.response = "raised"
    /\ Len(endpoint.agents) = 2
    /\ AllClosedOnce
    /\ endpoint.executions = <<>>
====
